---- MODULE Spec2Model ----
(***************************************************************************)
(* Model of the Gemini MCP server (src/server.py): a line-delimited        *)
(* JSON-RPC loop over stdin/stdout, a dispatcher (handle_request) and four *)
(* tools whose blocking HTTP call runs on a ThreadPoolExecutor.            *)
(*                                                                         *)
(* Python values are modelled as follows.  A JSON object / dict is a TLA+  *)
(* function whose domain is its set of keys.  Every other value is a       *)
(* record carrying a tag t: None, a string (a sequence of parts, so that   *)
(* f-strings and + are concatenation of parts), an int, a list.            *)
(***************************************************************************)
EXTENDS Integers, Sequences, FiniteSets, TLC

VARIABLES
    api_key,        \* GeminiMCPServer.api_key
    api_configured, \* GeminiMCPServer.api_configured
    running,        \* GeminiMCPServer.running
    tasks,          \* the handle_request coroutines started so far
    queue,          \* executor: work items submitted and not yet taken
    workers,        \* executor: what each worker thread is running
    posted,         \* every requests.post issued so far, in order
    sent,           \* stdin: the lines the host writes, in order
    pipe,           \* stdin: bytes written by the host and not yet read
    eof,            \* stdin: the host has closed its end
    buffer,         \* main: buffer
    pc,             \* main: where the framing loop stands
    stdout          \* every line written to stdout, in order

vars == <<api_key, api_configured, running, tasks, queue, workers, posted,
          sent, pipe, eof, buffer, pc, stdout>>

-----------------------------------------------------------------------------
(* Bounds of the model *)

\* number of coroutines a caller gathers over handle_request
MaxTasks == 3
\* number of lines the host writes to stdin
MaxLines == 2

-----------------------------------------------------------------------------
(* Python values *)

None == [t |-> "None"]

EmptyDict == [k \in {} |-> None]

\* a string literal
Str(s) == [t |-> "str", parts |-> IF s = "" THEN <<>> ELSE <<[lit |-> s]>>]

\* a string of n characters supplied by the caller (an opaque payload)
Chars(n) == [t |-> "str", parts |-> IF n = 0 THEN <<>> ELSE <<[chars |-> n]>>]

PyInt(n) == [t |-> "int", v |-> n]

List(items) == [t |-> "list", items |-> items]

IsDict(x) == "t" \notin DOMAIN x

IsStr(x) == ~IsDict(x) /\ x.t = "str"

\* a + b on strings
Cat(a, b) == [t |-> "str", parts |-> a.parts \o b.parts]

\* str(x), and {x} inside an f-string
Format(x) == IF IsStr(x) THEN x ELSE [t |-> "str", parts |-> <<[fmt |-> x]>>]

\* `not x`
Falsy(x) ==
    IF IsDict(x) THEN DOMAIN x = {}
    ELSE CASE x.t = "None" -> TRUE
           [] x.t = "str"  -> x.parts = <<>>
           [] x.t = "int"  -> x.v = 0
           [] x.t = "list" -> x.items = <<>>

\* sub occurs in s: the parts of sub are consecutive parts of s
ContainsStr(s, sub) ==
    \E i \in 1..(Len(s.parts) + 1) :
        /\ i + Len(sub.parts) - 1 <= Len(s.parts)
        /\ SubSeq(s.parts, i, i + Len(sub.parts) - 1) = sub.parts

\* the literal piece occurs in s as one of the parts it was built from
Contains(s, piece) == \E i \in 1..Len(s.parts) : s.parts[i] = [lit |-> piece]

StartsWith(s, piece) == s.parts # <<>> /\ s.parts[1] = [lit |-> piece]

\* outcomes of evaluating a piece of code
Return(v) == [k |-> "return", v |-> v]

Raise(m) == [k |-> "raise", msg |-> m]

Await(prompt, model) == [k |-> "await", prompt |-> prompt, model |-> model]

\* `key in x`
In(key, x) ==
    IF IsDict(x) THEN Return(key \in DOMAIN x)
    ELSE CASE x.t = "str"  -> Return(Contains(x, key))
           [] x.t = "list" -> Return(\E i \in 1..Len(x.items) : x.items[i] = Str(key))
           [] OTHER        -> Raise(Str("argument of type is not iterable"))

\* x[key] with a string key
Subscript(x, key) ==
    IF IsDict(x)
    THEN IF key \in DOMAIN x THEN Return(x[key]) ELSE Raise(Format(Str(key)))
    ELSE Raise(Str("indices must be integers"))

\* x.get(key, default)
Get(x, key, default) ==
    IF IsDict(x)
    THEN Return(IF key \in DOMAIN x THEN x[key] ELSE default)
    ELSE Raise(Str("object has no attribute 'get'"))

-----------------------------------------------------------------------------
(* Request and Response *)

Request(id, method, params) == [id |-> id, method |-> method, params |-> params]

Response(id, result, error) == [id |-> id, result |-> result, error |-> error]

Error(code, message) == [code |-> code, message |-> message]

-----------------------------------------------------------------------------
(* Strings whose length the code measures *)

\* "\n\n[Content truncated due to size...]"
TruncationMarker == "[Content truncated due to size...]"

\* len() of that marker, with its two leading newlines
MarkerLen == 36

max_content_length == 30000

\* len(content) > 10000 selects the pro model
pro_model_threshold == 10000

\* Only caller payloads and the truncation marker are ever measured or cut.
PartLen(p) == IF "chars" \in DOMAIN p THEN p.chars ELSE MarkerLen

RECURSIVE PartsLen(_)
PartsLen(parts) ==
    IF parts = <<>> THEN 0 ELSE PartLen(Head(parts)) + PartsLen(Tail(parts))

\* len(s)
PyLen(s) == PartsLen(s.parts)

RECURSIVE PartsPrefix(_, _)
PartsPrefix(parts, n) ==
    IF parts = <<>> \/ n = 0 THEN <<>>
    ELSE IF PartLen(Head(parts)) <= n
         THEN <<Head(parts)>> \o PartsPrefix(Tail(parts), n - PartLen(Head(parts)))
         ELSE <<[chars |-> n]>>

\* s[:n]
Slice(s, n) == [t |-> "str", parts |-> PartsPrefix(s.parts, n)]

-----------------------------------------------------------------------------
(* GeminiMCPServer: initialize and tools/list *)

\* a variant that accepts initialize once and refuses it afterwards
_handle_initialize_once(request) ==
    IF \E u \in DOMAIN tasks : tasks[u].request.method = Str("initialize")
    THEN Response(request.id, None, Error(-32600, Str("Already initialized")))
    ELSE Response(request.id,
                  [protocolVersion |-> Str("2024-11-05"),
                   capabilities |-> [tools |-> EmptyDict],
                   serverInfo |-> [name |-> Str("gemini-collab"),
                                   version |-> Str("1.0.0")]],
                  None)

_handle_initialize(request) ==
    Response(request.id,
             [protocolVersion |-> Str("2024-11-05"),
              capabilities |-> [tools |-> EmptyDict],
              serverInfo |-> [name |-> Str("gemini-collab"), version |-> Str("1.0.0")]],
             None)

ToolDescriptors ==
    << [name |-> Str("ask_gemini"),
        properties |-> {"question"}, required |-> <<"question">>],
       [name |-> Str("gemini_code_review"),
        properties |-> {"code", "context", "focus_areas"}, required |-> <<"code">>],
       [name |-> Str("gemini_brainstorm"),
        properties |-> {"topic", "constraints"}, required |-> <<"topic">>],
       [name |-> Str("gemini_analyze_large"),
        properties |-> {"content", "analysis_type", "questions"},
        required |-> <<"content">>] >>

\* a variant that lists the tools only when the credential is configured
_handle_tools_list_configured_only(request) ==
    Response(request.id,
             [tools |-> List(IF api_configured THEN ToolDescriptors ELSE <<>>)],
             None)

_handle_tools_list(request) ==
    Response(request.id, [tools |-> List(ToolDescriptors)], None)

-----------------------------------------------------------------------------
(* The four tools: guidance string, prompt, model *)

FlashModel == "gemini-1.5-flash"

ProModel == "gemini-1.5-pro"

\* a variant that sends the question upstream without looking at it
_ask_gemini_async_no_guard(question) == Await(question, FlashModel)

_ask_gemini_async(question) ==
    IF Falsy(question) THEN Return(Str("Please provide a question."))
    ELSE Await(question, FlashModel)

\* {"Label: " + value if value else ""}
OptionalLine(label, value) ==
    IF Falsy(value) THEN Str("") ELSE Cat(Str(label), value)

_code_review_async(code, context, focus_areas) ==
    IF Falsy(code) THEN Return(Str("Please provide code to review."))
    ELSE Await(Cat(Cat(Cat(Str("Please review the following code"),
                           OptionalLine("Context: ", context)),
                       OptionalLine("Focus areas: ", focus_areas)),
                   Cat(Str("Code:"), Format(code))),
               FlashModel)

_brainstorm_async(topic, constraints) ==
    IF Falsy(topic) THEN Return(Str("Please provide a topic to brainstorm."))
    ELSE Await(Cat(Cat(Str("Let's brainstorm ideas about: "), Format(topic)),
                   Cat(OptionalLine("Constraints/Requirements: ", constraints),
                       Str("Please provide:"))),
               FlashModel)

\* a variant that never cuts the content
TruncateContent_no_cut(content) == content

\* lines 333-337: the content the prompt is built from
TruncateContent(content) ==
    IF PyLen(content) > max_content_length
    THEN Cat(Slice(content, max_content_length), Str(TruncationMarker))
    ELSE content

\* a variant whose comparison is >= instead of >
SelectModel_at_least(content) ==
    IF PyLen(content) >= pro_model_threshold THEN ProModel ELSE FlashModel

\* line 358: chosen from the length of the content after truncation
SelectModel(content) ==
    IF PyLen(content) > pro_model_threshold THEN ProModel ELSE FlashModel

_analyze_large_async(content, analysis_type, questions) ==
    IF Falsy(content) THEN Return(Str("Please provide content to analyze."))
    ELSE LET cut == TruncateContent(content) IN
         Await(Cat(Cat(Cat(Str("Please analyze the following content. Analysis type: "),
                           Format(analysis_type)),
                       OptionalLine("Specific questions to answer: ", questions)),
                   Cat(Str("Content:"), Format(cut))),
               SelectModel(cut))

-----------------------------------------------------------------------------
(* GeminiMCPServer: tools/call *)

\* lines 210-232: the coroutine the tool name selects, run up to its first
\* suspension; arguments.get raises when arguments is not a mapping
CallTool(tool_name, arguments) ==
    CASE tool_name = Str("ask_gemini") ->
           IF ~IsDict(arguments) THEN Get(arguments, "question", Str(""))
           ELSE _ask_gemini_async(Get(arguments, "question", Str("")).v)
      [] tool_name = Str("gemini_code_review") ->
           IF ~IsDict(arguments) THEN Get(arguments, "code", Str(""))
           ELSE _code_review_async(Get(arguments, "code", Str("")).v,
                                   Get(arguments, "context", Str("")).v,
                                   Get(arguments, "focus_areas", Str("")).v)
      [] tool_name = Str("gemini_brainstorm") ->
           IF ~IsDict(arguments) THEN Get(arguments, "topic", Str(""))
           ELSE _brainstorm_async(Get(arguments, "topic", Str("")).v,
                                  Get(arguments, "constraints", Str("")).v)
      [] tool_name = Str("gemini_analyze_large") ->
           IF ~IsDict(arguments) THEN Get(arguments, "content", Str(""))
           ELSE _analyze_large_async(Get(arguments, "content", Str("")).v,
                                     Get(arguments, "analysis_type", Str("general")).v,
                                     Get(arguments, "questions", Str("")).v)
      [] OTHER -> [k |-> "unknown"]

MissingToolName(request) ==
    Response(request.id, None,
             Error(-32602, Cat(Str("Invalid params: "), Str("missing tool name"))))

NotConfigured(request) ==
    Response(request.id, None,
             Error(-32603, Cat(Cat(Str("Gemini API "), Str("not configured")),
                               Str(". Please set GEMINI_API_KEY environment variable."))))

\* a variant whose message does not name the tool
UnknownTool_without_name(request, tool_name) ==
    Response(request.id, None, Error(-32602, Str("Unknown tool")))

UnknownTool(request, tool_name) ==
    Response(request.id, None,
             Error(-32602, Cat(Str("Unknown tool: "), Format(tool_name))))

\* lines 234-242: what the try block makes of the tool coroutine's outcome
ToolCallResponse(request, r) ==
    IF r.k = "raise"
    THEN Response(request.id, None,
                  Error(-32603, Cat(Str("Error calling Gemini"),
                                    Cat(Str(": "), Format(r.msg)))))
    ELSE Response(request.id,
                  [content |-> List(<<[type |-> Str("text"), text |-> r.v]>>)],
                  None)

\* a variant that looks the tool up before it checks the credential
_handle_tools_call_tool_first(request) ==
    LET params == request.params
        has    == In("name", params)
        name   == Subscript(params, "name")
        args   == Get(params, "arguments", EmptyDict)
        r      == CallTool(name.v, args.v)
    IN  IF Falsy(params) THEN Return(MissingToolName(request))
        ELSE IF has.k = "raise" THEN has
        ELSE IF ~has.v THEN Return(MissingToolName(request))
        ELSE IF name.k = "raise" THEN name
        ELSE IF args.k = "raise" THEN args
        ELSE IF r.k = "unknown" THEN Return(UnknownTool(request, name.v))
        ELSE IF ~api_configured THEN Return(NotConfigured(request))
        ELSE IF r.k = "await" THEN r
        ELSE Return(ToolCallResponse(request, r))

\* a variant that checks the credential before it looks at params
_handle_tools_call_credential_first(request) ==
    LET params == request.params
        has    == In("name", params)
        name   == Subscript(params, "name")
        args   == Get(params, "arguments", EmptyDict)
        r      == CallTool(name.v, args.v)
    IN  IF ~api_configured THEN Return(NotConfigured(request))
        ELSE IF Falsy(params) THEN Return(MissingToolName(request))
        ELSE IF has.k = "raise" THEN has
        ELSE IF ~has.v THEN Return(MissingToolName(request))
        ELSE IF name.k = "raise" THEN name
        ELSE IF args.k = "raise" THEN args
        ELSE CASE r.k = "unknown" -> Return(UnknownTool(request, name.v))
               [] r.k = "await"   -> r
               [] OTHER           -> Return(ToolCallResponse(request, r))

\* a variant that never checks the credential
_handle_tools_call_no_credential_check(request) ==
    LET params == request.params
        has    == In("name", params)
        name   == Subscript(params, "name")
        args   == Get(params, "arguments", EmptyDict)
        r      == CallTool(name.v, args.v)
    IN  IF Falsy(params) THEN Return(MissingToolName(request))
        ELSE IF has.k = "raise" THEN has
        ELSE IF ~has.v THEN Return(MissingToolName(request))
        ELSE IF name.k = "raise" THEN name
        ELSE IF args.k = "raise" THEN args
        ELSE CASE r.k = "unknown" -> Return(UnknownTool(request, name.v))
               [] r.k = "await"   -> r
               [] OTHER           -> Return(ToolCallResponse(request, r))

\* _handle_tools_call up to its first suspension
_handle_tools_call(request) ==
    LET params == request.params
        has    == In("name", params)
        name   == Subscript(params, "name")
        args   == Get(params, "arguments", EmptyDict)
        r      == CallTool(name.v, args.v)
    IN  IF Falsy(params) THEN Return(MissingToolName(request))
        ELSE IF has.k = "raise" THEN has
        ELSE IF ~has.v THEN Return(MissingToolName(request))
        ELSE IF name.k = "raise" THEN name
        ELSE IF args.k = "raise" THEN args
        ELSE IF ~api_configured THEN Return(NotConfigured(request))
        ELSE CASE r.k = "unknown" -> Return(UnknownTool(request, name.v))
               [] r.k = "await"   -> r
               [] OTHER           -> Return(ToolCallResponse(request, r))

\* a variant whose message counts the requests handled before
MethodNotFound_numbered(request) ==
    Response(request.id, None,
             Error(-32601, Cat(Cat(Str("Method not found: "), Format(request.method)),
                               Format(PyInt(Len(tasks))))))

\* a variant that builds the error without the request's id
MethodNotFound_without_id(request) ==
    Response(None, None,
             Error(-32601, Cat(Str("Method not found: "), Format(request.method))))

\* lines 79-85
MethodNotFound(request) ==
    Response(request.id, None,
             Error(-32601, Cat(Str("Method not found: "), Format(request.method))))

\* a variant whose error does not carry the failure's message
handle_request_generic_message(request) ==
    LET r == CASE request.method = Str("initialize") ->
                    Return(_handle_initialize(request))
               [] request.method = Str("tools/list") ->
                    Return(_handle_tools_list(request))
               [] request.method = Str("tools/call") ->
                    _handle_tools_call(request)
               [] OTHER ->
                    Return(MethodNotFound(request))
    IN  IF r.k = "raise"
        THEN Return(Response(request.id, None, Error(-32603, Str("Internal error"))))
        ELSE r

\* handle_request up to its first suspension: Return(response), or Await
handle_request(request) ==
    LET r == CASE request.method = Str("initialize") ->
                    Return(_handle_initialize(request))
               [] request.method = Str("tools/list") ->
                    Return(_handle_tools_list(request))
               [] request.method = Str("tools/call") ->
                    _handle_tools_call(request)
               [] OTHER ->
                    Return(MethodNotFound(request))
    IN  IF r.k = "raise"
        THEN Return(Response(request.id, None, Error(-32603, Format(r.msg))))
        ELSE r

\* handle_request from the point where the executor future completes
handle_request_resume(request, fut) == ToolCallResponse(request, fut)

-----------------------------------------------------------------------------
(* The upstream HTTP call *)

\* what requests.post, raise_for_status and the body of the reply can do
Upstream == {"ok", "no_candidates", "timeout", "http_error",
             "connection_error", "bad_body"}

UpstreamFailures == Upstream \ {"ok", "no_candidates"}

\* data["candidates"][0]["content"]["parts"][0]["text"]: the service's answer
Reply(prompt, model) ==
    [t |-> "str", parts |-> <<[reply |-> prompt, model |-> model]>>]

\* lines 253-260: the try block
PostAndExtract(prompt, model, up) ==
    CASE up = "ok"               -> Return(Reply(prompt, model))
      [] up = "no_candidates"    -> Return(Str("No response generated"))
      [] up = "timeout"          -> [k |-> "raise", type |-> "Timeout",
                                     msg |-> Str("read timed out")]
      [] up = "http_error"       -> [k |-> "raise", type |-> "HTTPError",
                                     msg |-> Str("500 Server Error")]
      [] up = "connection_error" -> [k |-> "raise", type |-> "ConnectionError",
                                     msg |-> Str("connection refused")]
      [] up = "bad_body"         -> [k |-> "raise", type |-> "KeyError",
                                     msg |-> Str("'content'")]

\* a variant with no except clause: every failure leaves the function
_call_gemini_api_no_except(prompt, model, up) == PostAndExtract(prompt, model, up)

\* a variant without the final `except Exception`
_call_gemini_api_no_catch_all(prompt, model, up) ==
    LET r == PostAndExtract(prompt, model, up) IN
    IF r.k = "return" THEN r
    ELSE IF r.type = "Timeout"
         THEN Return(Cat(Str("Error: "), Str("Request timed out after 30 seconds")))
         ELSE IF r.type = "HTTPError"
              THEN Return(Cat(Str("Error: "), Format(r.msg)))
              ELSE r

_call_gemini_api(prompt, model, up) ==
    LET r == PostAndExtract(prompt, model, up) IN
    IF r.k = "return" THEN r
    ELSE IF r.type = "Timeout"
         THEN Return(Cat(Str("Error: "), Str("Request timed out after 30 seconds")))
         ELSE Return(Cat(Str("Error: "), Format(r.msg)))

-----------------------------------------------------------------------------
(* The requests a client can send *)

\* dicts over some of the keys, with values drawn from vals[key]
DictsOver(keys, vals) ==
    UNION { { [k \in D |-> f[k]] : f \in [D -> UNION {vals[k] : k \in D}] }
            : D \in SUBSET keys }

WellTyped(d, vals) == \A k \in DOMAIN d : d[k] \in vals[k]

ShortTexts == {Chars(0), Chars(1)}

\* lengths around the two thresholds of gemini_analyze_large
ContentTexts ==
    {Chars(0), Chars(1),
     Chars(pro_model_threshold), Chars(pro_model_threshold + 1),
     Chars(max_content_length), Chars(max_content_length + 1)}

ArgumentValues(key) == IF key = "content" THEN ContentTexts ELSE ShortTexts

\* the "arguments" member a caller can send for a tool: a mapping over the
\* tool's argument names, or something that is not a mapping
ArgumentsOf(i) ==
    LET keys == ToolDescriptors[i].properties
        vals == [k \in keys |-> ArgumentValues(k)]
    IN  {d \in DictsOver(keys, vals) : WellTyped(d, vals)} \cup {None, Str("text")}

KnownToolCalls ==
    UNION { { ("name" :> ToolDescriptors[i].name) @@ ("arguments" :> a)
              : a \in ArgumentsOf(i) }
            \cup { ("name" :> ToolDescriptors[i].name) }
            : i \in 1..Len(ToolDescriptors) }

OtherToolCalls ==
    { ("name" :> n) @@ ("arguments" :> a)
      : n \in {Str("no_such_tool"), None},
        a \in {EmptyDict, ("question" :> Chars(1)), None} }
    \cup { ("name" :> Str("no_such_tool")) }

\* params without a usable name: absent, empty, no name member, not a mapping
NamelessParams ==
    {None, EmptyDict, ("arguments" :> ("question" :> Chars(1))),
     Str("name"), Str("text"), PyInt(0), PyInt(5), List(<<Str("name")>>)}

RequestIds == {None, PyInt(0), Str("a")}

AllRequests ==
    { Request(id, Str("tools/call"), p)
      : id \in RequestIds,
        p \in KnownToolCalls \cup OtherToolCalls \cup NamelessParams }
    \cup
    { Request(id, m, p)
      : id \in RequestIds,
        m \in {Str("initialize"), Str("tools/list"), Str("resources/list"), None},
        p \in {None, EmptyDict} }

\* test_concurrent_requests: request i asks "Question {i}"
ConcurrentRequest(i) ==
    Request(PyInt(i), Str("tools/call"),
            ("name" :> Str("ask_gemini")) @@ ("arguments" :> ("question" :> Chars(i))))

-----------------------------------------------------------------------------
(* Coroutines and the executor *)

\* a pool one thread larger
max_workers_three == 2 + 1

max_workers == 2

Workers == 1..max_workers

Idle == [k |-> "idle"]

Pending == [k |-> "pending"]

NewTask(request) ==
    [request |-> request, st |-> "new", fut |-> Pending, response |-> None]

\* the coroutine runs until it returns or suspends in run_in_executor
StartedTask(task) ==
    LET r == handle_request(task.request) IN
    IF r.k = "await" THEN [task EXCEPT !.st = "await"]
    ELSE [task EXCEPT !.st = "done", !.response = r.v]

\* loop.run_in_executor(executor, self._call_gemini_api, prompt, model)
Submitted(q, t, request) ==
    LET r == handle_request(request) IN
    IF r.k = "await"
    THEN Append(q, [task |-> t, prompt |-> r.prompt, model |-> r.model])
    ELSE q

\* a variant that completes the oldest future still pending
SetFutureResult_oldest_pending(ts, t, result) ==
    LET u == CHOOSE u \in DOMAIN ts :
                 /\ ts[u].st = "await" /\ ts[u].fut = Pending
                 /\ \A v \in 1..(u - 1) : ~(ts[v].st = "await" /\ ts[v].fut = Pending)
    IN  [ts EXCEPT ![u].fut = result]

\* the worker sets the result of the future its work item carries
SetFutureResult(ts, t, result) == [ts EXCEPT ![t].fut = result]

ResumedTask(task) ==
    [task EXCEPT !.st = "done",
                 !.response = handle_request_resume(task.request, task.fut)]

\* a worker thread takes the oldest work item and issues the POST
WorkerStart(w) ==
    /\ workers[w] = Idle
    /\ queue # <<>>
    /\ workers' = [workers EXCEPT ![w] = [k |-> "busy", item |-> Head(queue),
                                          post |-> Len(posted) + 1]]
    /\ queue' = Tail(queue)
    /\ posted' = Append(posted, [task |-> Head(queue).task,
                                 prompt |-> Head(queue).prompt,
                                 model |-> Head(queue).model,
                                 up |-> "pending",
                                 returned |-> Pending])
    /\ UNCHANGED <<api_key, api_configured, running, tasks, sent, pipe, eof,
                   buffer, pc, stdout>>

\* a variant that issues the call a second time when the first one failed
WorkerFinish_retry_once(w) ==
    /\ workers[w] # Idle
    /\ \E up \in Upstream :
         LET item == workers[w].item
             res  == _call_gemini_api(item.prompt, item.model, up)
             again == /\ up \notin {"ok", "no_candidates"}
                      /\ Cardinality({i \in 1..Len(posted) :
                                         posted[i].task = item.task}) < 2
         IN  /\ tasks' = IF again THEN tasks
                         ELSE SetFutureResult(tasks, item.task, res)
             /\ queue' = IF again THEN Append(queue, item) ELSE queue
             /\ posted' = [posted EXCEPT ![workers[w].post].up = up,
                                         ![workers[w].post].returned = res]
    /\ workers' = [workers EXCEPT ![w] = Idle]
    /\ UNCHANGED <<api_key, api_configured, running, sent, pipe, eof,
                   buffer, pc, stdout>>

\* _call_gemini_api returns in the worker thread: the future completes
WorkerFinish(w) ==
    /\ workers[w] # Idle
    /\ \E up \in Upstream :
         LET item == workers[w].item
             res  == _call_gemini_api(item.prompt, item.model, up)
         IN  /\ tasks' = SetFutureResult(tasks, item.task, res)
             /\ posted' = [posted EXCEPT ![workers[w].post].up = up,
                                         ![workers[w].post].returned = res]
    /\ workers' = [workers EXCEPT ![w] = Idle]
    /\ UNCHANGED <<api_key, api_configured, running, queue, sent, pipe, eof,
                   buffer, pc, stdout>>

-----------------------------------------------------------------------------
(* A caller that awaits handle_request directly, as the tests do: one
   request of any shape, or several tools/call requests gathered *)

\* os.getenv("GEMINI_API_KEY"): unset, set to the empty string, set
ApiKeys == {None, Str(""), Str("test-api-key")}

\* GeminiMCPServer.__init__
ServerInit ==
    /\ api_key \in ApiKeys
    /\ api_configured = ~Falsy(api_key)
    /\ running = TRUE

ExecutorInit ==
    /\ queue = <<>>
    /\ workers = [w \in Workers |-> Idle]
    /\ posted = <<>>

InitGather ==
    /\ ServerInit
    /\ ExecutorInit
    /\ tasks \in { <<NewTask(r)>> : r \in AllRequests }
                 \cup { [t \in 1..n |-> NewTask(ConcurrentRequest(t))]
                        : n \in 2..MaxTasks }
    /\ sent = <<>> /\ pipe = <<>> /\ eof = FALSE /\ buffer = <<>>
    /\ stdout = <<>>
    /\ pc = "gather"

\* the event loop starts the gathered coroutines in order
TaskStart(t) ==
    /\ tasks[t].st = "new"
    /\ \A u \in 1..(t - 1) : tasks[u].st # "new"
    /\ tasks' = [tasks EXCEPT ![t] = StartedTask(tasks[t])]
    /\ queue' = Submitted(queue, t, tasks[t].request)
    /\ UNCHANGED <<api_key, api_configured, running, workers, posted, sent,
                   pipe, eof, buffer, pc, stdout>>

\* the event loop resumes a coroutine whose future is done
TaskResume(t) ==
    /\ tasks[t].st = "await"
    /\ tasks[t].fut # Pending
    /\ tasks' = [tasks EXCEPT ![t] = ResumedTask(tasks[t])]
    /\ UNCHANGED <<api_key, api_configured, running, queue, workers, posted,
                   sent, pipe, eof, buffer, pc, stdout>>

NextGather ==
    \/ \E t \in DOMAIN tasks : TaskStart(t)
    \/ \E t \in DOMAIN tasks : TaskResume(t)
    \/ \E w \in Workers : WorkerStart(w)
    \/ \E w \in Workers : WorkerFinish(w)

SpecGather == InitGather /\ [][NextGather]_vars

\* the event loop runs every ready coroutine, the worker threads run, and
\* the HTTP call returns (it has a timeout)
SpecGatherFair ==
    /\ InitGather
    /\ [][NextGather]_vars
    /\ WF_vars(\E t \in DOMAIN tasks : TaskStart(t))
    /\ WF_vars(\E t \in DOMAIN tasks : TaskResume(t))
    /\ WF_vars(\E w \in Workers : WorkerStart(w))
    /\ WF_vars(\E w \in Workers : WorkerFinish(w))

-----------------------------------------------------------------------------
(* Bytes, characters and lines on stdin *)

\* reader.read(1024)
ReadSize == 1024

Newline == [b |-> "\n"]

Space == [b |-> " "]

\* the two bytes of one two-byte UTF-8 character, and that character
WideByte(i) == [b |-> "wide", i |-> i]

WideChar == [b |-> "wide-char"]

\* The JSON text of an object is a first piece holding its members and the
\* closing brace; a text that spells one of its characters in two bytes
\* (wide) has those two bytes between the two pieces.
Open(obj, wide) == [b |-> "{", obj |-> obj, wide |-> wide]

Close == [b |-> "}"]

\* the JSON text of a value that is not an object
Scalar(v) == [b |-> "json", v |-> v]

\* bytes that are no JSON text
Garbage == [b |-> "garbage"]

Encode(obj, wide) ==
    IF wide THEN <<Open(obj, TRUE), WideByte(1), WideByte(2), Close>>
    ELSE <<Open(obj, FALSE), Close>>

DecodeError == [b |-> "error"]

RECURSIVE Utf8Chars(_)
\* the characters of a byte string, or DecodeError in place of the rest
Utf8Chars(bytes) ==
    IF bytes = <<>> THEN <<>>
    ELSE IF Head(bytes).b # "wide" THEN <<Head(bytes)>> \o Utf8Chars(Tail(bytes))
    ELSE IF /\ Head(bytes) = WideByte(1)
            /\ Len(bytes) >= 2
            /\ bytes[2] = WideByte(2)
         THEN <<WideChar>> \o Utf8Chars(Tail(Tail(bytes)))
         ELSE <<DecodeError>>

\* data.decode("utf-8")
Utf8Decode(bytes) ==
    LET chars == Utf8Chars(bytes) IN
    IF chars # <<>> /\ chars[Len(chars)] = DecodeError
    THEN Raise(Str("'utf-8' codec can't decode byte"))
    ELSE Return(chars)

\* "\n" in buffer
HasNewline(chars) == \E i \in 1..Len(chars) : chars[i] = Newline

FirstNewline(chars) ==
    CHOOSE i \in 1..Len(chars) :
        chars[i] = Newline /\ \A j \in 1..(i - 1) : chars[j] # Newline

\* line, buffer = buffer.split("\n", 1)
BeforeNewline(chars) == SubSeq(chars, 1, FirstNewline(chars) - 1)

AfterNewline(chars) == SubSeq(chars, FirstNewline(chars) + 1, Len(chars))

RECURSIVE LStrip(_)
LStrip(chars) ==
    IF chars # <<>> /\ Head(chars) = Space THEN LStrip(Tail(chars)) ELSE chars

RECURSIVE RStrip(_)
RStrip(chars) ==
    IF chars # <<>> /\ chars[Len(chars)] = Space
    THEN RStrip(SubSeq(chars, 1, Len(chars) - 1))
    ELSE chars

\* line.strip()
Strip(chars) == RStrip(LStrip(chars))

\* json.loads(line)
json_loads(line) ==
    CASE Len(line) = 2 /\ line[1].b = "{" /\ ~line[1].wide /\ line[2] = Close ->
           Return(line[1].obj)
      [] /\ Len(line) = 3 /\ line[1].b = "{" /\ line[1].wide
         /\ line[2] = WideChar /\ line[3] = Close ->
           Return(line[1].obj)
      [] Len(line) = 1 /\ line[1].b = "json" ->
           Return(line[1].v)
      [] OTHER ->
           Raise(Str("JSONDecodeError"))

-----------------------------------------------------------------------------
(* main: the framing loop *)

\* lines 422-426: Request(id=request_data.get("id"), ...)
RequestOf(request_data) ==
    Request(Get(request_data, "id", None).v,
            Get(request_data, "method", None).v,
            Get(request_data, "params", None).v)

\* a variant that always writes the result member
BuildLine_always_result(response) ==
    ("jsonrpc" :> Str("2.0"))
    @@ (IF response.id # None THEN ("id" :> response.id) ELSE EmptyDict)
    @@ (IF response.error # None /\ ~Falsy(response.error)
        THEN ("error" :> response.error)
        ELSE EmptyDict)
    @@ ("result" :> response.result)

\* lines 432-440: response_data
BuildLine(response) ==
    ("jsonrpc" :> Str("2.0"))
    @@ (IF response.id # None THEN ("id" :> response.id) ELSE EmptyDict)
    @@ (IF response.error # None /\ ~Falsy(response.error)
        THEN ("error" :> response.error)
        ELSE ("result" :> response.result))

\* lines 449-462: the lines written after a failure while processing a line
FallbackLines(line, e) ==
    LET req_data == json_loads(line)
        has      == In("id", req_data.v)
        id       == Subscript(req_data.v, "id")
    IN  IF req_data.k = "raise" THEN <<>>
        ELSE IF has.k = "raise" THEN <<>>
        ELSE IF ~has.v THEN <<>>
        ELSE IF id.k = "raise" THEN <<>>
        ELSE << ("jsonrpc" :> Str("2.0")) @@ ("id" :> id.v)
                @@ ("error" :> Error(-32603, Format(e))) >>

\* a loop that goes on to the next line instead of awaiting the handler
PcOfSuspended_next_line == "lines"

\* a loop that goes back to reading instead of awaiting the handler
PcOfSuspended_read_on == "check"

\* where the loop stands after `await server.handle_request(request)` on a
\* coroutine that suspended
PcOfSuspended == "await"

\* a signal that interrupts main where it stands, as the default handler
\* of SIGINT would
Signal_interrupts_main ==
    /\ pc \notin {"gather", "stopped"}
    /\ running
    /\ running' = FALSE
    /\ pc' = "finally"
    /\ UNCHANGED <<api_key, api_configured, tasks, queue, workers, posted, sent,
                   pipe, eof, buffer, stdout>>

\* a termination signal: signal_handler
Signal ==
    /\ pc \notin {"gather", "stopped"}
    /\ running
    /\ running' = FALSE
    /\ UNCHANGED <<api_key, api_configured, tasks, queue, workers, posted, sent,
                   pipe, eof, buffer, pc, stdout>>

\* the host closes its end of the pipe; the reader can see it only once it
\* has read everything the host wrote
HostClose ==
    /\ pc \notin {"gather", "stopped"}
    /\ pipe = <<>>
    /\ ~eof
    /\ eof' = TRUE
    /\ UNCHANGED <<api_key, api_configured, running, tasks, queue, workers,
                   posted, sent, pipe, buffer, pc, stdout>>

\* line 398: while server.running
LoopCheck ==
    /\ pc = "check"
    /\ pc' = IF running THEN "read" ELSE "finally"
    /\ UNCHANGED <<api_key, api_configured, running, tasks, queue, workers,
                   posted, sent, pipe, eof, buffer, stdout>>

\* lines 401-406: a read returns some bytes; a chunk that does not decode
\* is logged at line 468 and the loop goes on without it
ReadData ==
    /\ pc = "read"
    /\ pipe # <<>>
    /\ \E n \in 1..Len(pipe) :
         /\ n <= ReadSize
         /\ LET data == Utf8Decode(SubSeq(pipe, 1, n)) IN
             /\ pipe' = SubSeq(pipe, n + 1, Len(pipe))
             /\ IF data.k = "raise"
                THEN buffer' = buffer /\ pc' = "check"
                ELSE buffer' = buffer \o data.v /\ pc' = "lines"
    /\ UNCHANGED <<api_key, api_configured, running, tasks, queue, workers,
                   posted, sent, eof, stdout>>

\* lines 402-404: a zero-byte read
ReadEOF ==
    /\ pc = "read"
    /\ pipe = <<>>
    /\ eof
    /\ pc' = "finally"
    /\ UNCHANGED <<api_key, api_configured, running, tasks, queue, workers,
                   posted, sent, pipe, eof, buffer, stdout>>

\* lines 464-466: nothing arrived within the timeout
ReadTimeout ==
    /\ pc = "read"
    /\ pipe = <<>>
    /\ ~eof
    /\ pc' = "check"
    /\ UNCHANGED <<api_key, api_configured, running, tasks, queue, workers,
                   posted, sent, pipe, eof, buffer, stdout>>

\* line 409: no newline is left in the buffer
LinesDone ==
    /\ pc = "lines"
    /\ ~HasNewline(buffer)
    /\ pc' = "check"
    /\ UNCHANGED <<api_key, api_configured, running, tasks, queue, workers,
                   posted, sent, pipe, eof, buffer, stdout>>

\* lines 410-462: one line is taken from the buffer and processed, up to the
\* write of its response or to the suspension of its handler
ProcessLine ==
    /\ pc = "lines"
    /\ HasNewline(buffer)
    /\ buffer' = AfterNewline(buffer)
    /\ LET line         == Strip(BeforeNewline(buffer))
           request_data == json_loads(line)
           task         == StartedTask(NewTask(RequestOf(request_data.v)))
       IN  IF line = <<>> \/ request_data.k = "raise"
           THEN /\ pc' = "lines"
                /\ UNCHANGED <<tasks, queue, stdout>>
           ELSE IF ~IsDict(request_data.v)
           THEN /\ pc' = "lines"
                /\ stdout' = stdout \o FallbackLines(line, Str("object has no attribute 'get'"))
                /\ UNCHANGED <<tasks, queue>>
           ELSE /\ tasks' = Append(tasks, task)
                /\ queue' = Submitted(queue, Len(tasks) + 1, task.request)
                /\ IF task.st = "done"
                   THEN /\ stdout' = Append(stdout, BuildLine(task.response))
                        /\ pc' = "lines"
                   ELSE /\ stdout' = stdout
                        /\ pc' = PcOfSuspended
    /\ UNCHANGED <<api_key, api_configured, running, workers, posted, sent, pipe,
                   eof>>

\* lines 429-445: the awaited handler returns and its response is written
LoopResume ==
    /\ pc = "await"
    /\ tasks[Len(tasks)].fut # Pending
    /\ tasks' = [tasks EXCEPT ![Len(tasks)] = ResumedTask(tasks[Len(tasks)])]
    /\ stdout' = Append(stdout, BuildLine(ResumedTask(tasks[Len(tasks)]).response))
    /\ pc' = "lines"
    /\ UNCHANGED <<api_key, api_configured, running, queue, workers, posted,
                   sent, pipe, eof, buffer>>

\* line 473: executor.shutdown(wait=True), then main returns
Shutdown ==
    /\ pc = "finally"
    /\ queue = <<>>
    /\ \A w \in Workers : workers[w] = Idle
    /\ pc' = "stopped"
    /\ UNCHANGED <<api_key, api_configured, running, tasks, queue, workers,
                   posted, sent, pipe, eof, buffer, stdout>>

-----------------------------------------------------------------------------
(* The lines a host writes *)

InitializeObject(id) == ("id" :> id) @@ ("method" :> Str("initialize"))

AskObject(id) ==
    ("id" :> id) @@ ("method" :> Str("tools/call"))
    @@ ("params" :> (("name" :> Str("ask_gemini"))
                     @@ ("arguments" :> ("question" :> Chars(1)))))

\* the JSON object that spells a request; a member that is None is left out
ObjectOf(request) ==
    (IF request.id # None THEN ("id" :> request.id) ELSE EmptyDict)
    @@ (IF request.method # None THEN ("method" :> request.method) ELSE EmptyDict)
    @@ (IF request.params # None THEN ("params" :> request.params) ELSE EmptyDict)

LoopObjects ==
    { InitializeObject(Str("a")),
      AskObject(Str("b")),
      ("method" :> Str("tools/list")),
      ("id" :> Str("a")) @@ ("method" :> Str("resources/list")) }

\* request texts that hold a two-byte character
WideObjects == { InitializeObject(Str("w")) }

\* a line of bytes that are no UTF-8 text: a continuation byte with no lead
InvalidBytes == <<WideByte(2)>>

\* the lines of a stream of several lines
StdinLines ==
    { Encode(obj, FALSE) : obj \in LoopObjects }
    \cup { Encode(obj, TRUE) : obj \in WideObjects }
    \cup { <<>>, <<Garbage>>, <<Scalar(List(<<Str("id")>>))>>, InvalidBytes }

\* the lines of a stream of one line: a request of any shape, and more
\* lines that are no request object
SingleLines ==
    { Encode(ObjectOf(r), FALSE) : r \in AllRequests }
    \cup { Encode(("id" :> None) @@ ("method" :> Str("initialize")), FALSE),
           <<Space>> \o Encode(InitializeObject(PyInt(0)), FALSE) \o <<Space>>,
           Encode(AskObject(Str("w")), TRUE),
           <<Space>>, <<Scalar(PyInt(5))>>, <<Scalar(Str("id"))>>,
           <<Open(InitializeObject(Str("a")), FALSE)>> }

RECURSIVE Joined(_)
\* the bytes of the lines, each followed by its newline
Joined(lines) ==
    IF lines = <<>> THEN <<>> ELSE Head(lines) \o <<Newline>> \o Joined(Tail(lines))

\* the host writes up to MaxLines lines, or one request of any shape
Init ==
    /\ ServerInit
    /\ api_key # Str("")
    /\ ExecutorInit
    /\ tasks = <<>>
    /\ sent \in UNION { [1..n -> StdinLines] : n \in 0..MaxLines }
                \cup { <<line>> : line \in SingleLines }
    /\ pipe = Joined(sent)
    /\ eof = FALSE
    /\ buffer = <<>>
    /\ pc = "check"
    /\ stdout = <<>>

Next ==
    \/ Signal
    \/ HostClose
    \/ LoopCheck
    \/ ReadData
    \/ ReadEOF
    \/ ReadTimeout
    \/ LinesDone
    \/ ProcessLine
    \/ LoopResume
    \/ Shutdown
    \/ \E w \in Workers : WorkerStart(w)
    \/ \E w \in Workers : WorkerFinish(w)

Spec == Init /\ [][Next]_vars

\* line 410: the loop takes a line from its buffer; the steps of Next that
\* do so are exactly the ProcessLine steps
TakeLine ==
    /\ pc = "lines"
    /\ HasNewline(buffer)
    /\ buffer' = AfterNewline(buffer)

\* any other step of the coroutine main
MainStep ==
    \/ LoopCheck
    \/ ReadData
    \/ ReadEOF
    \/ ReadTimeout
    \/ LinesDone
    \/ LoopResume
    \/ Shutdown

\* the event loop runs the framing loop whenever it can go on, the worker
\* threads run, and the HTTP call returns (it has a timeout); when a signal
\* arrives and when the host writes or closes is up to the environment
SpecFair ==
    /\ Init
    /\ [][Next]_vars
    /\ WF_vars(MainStep)
    /\ WF_buffer(TakeLine)
    /\ WF_vars(\E w \in Workers : WorkerStart(w))
    /\ WF_vars(\E w \in Workers : WorkerFinish(w))

-----------------------------------------------------------------------------
(* Properties *)

\* the value a line of stdin decodes to, as json.loads sees the whole line
LineValue(line) ==
    LET chars == Utf8Decode(line) IN
    IF chars.k = "raise" THEN chars ELSE json_loads(Strip(chars.v))

\* the line spells a request object whose id member is id
IsRequestWithId(line, id) ==
    /\ id # None
    /\ LineValue(line).k = "return"
    /\ IsDict(LineValue(line).v)
    /\ "id" \in DOMAIN LineValue(line).v
    /\ LineValue(line).v["id"] = id

RequestsWithId(id) ==
    Cardinality({i \in 1..Len(sent) : IsRequestWithId(sent[i], id)})

ResponsesWithId(id) ==
    Cardinality({j \in 1..Len(stdout) :
                    "id" \in DOMAIN stdout[j] /\ stdout[j]["id"] = id})

SentIds ==
    {LineValue(sent[i]).v["id"] :
        i \in {j \in 1..Len(sent) :
                  \E id \in RequestIds \cup {Str("b"), Str("w")} :
                      IsRequestWithId(sent[j], id)}}

\* C1: every response id is the id of a request line of the input, and once
\* the loop has stopped on end of input (no termination signal), every
\* request line carrying an id has been answered by exactly one response
\* line with that id
C1_ExactlyOneResponse ==
    /\ \A j \in 1..Len(stdout) :
          "id" \in DOMAIN stdout[j] => stdout[j]["id"] \in SentIds
    /\ (pc = "stopped" /\ running) =>
          \A id \in SentIds : ResponsesWithId(id) = RequestsWithId(id)

-----------------------------------------------------------------------------
(* Properties of tools/call and of the dispatcher *)

IsToolsCall(t) == tasks[t].request.method = Str("tools/call")

Done(t) == tasks[t].st = "done"

\* params is a mapping with a name member
HasToolName(t) ==
    /\ IsDict(tasks[t].request.params)
    /\ "name" \in DOMAIN tasks[t].request.params

ToolName(t) == tasks[t].request.params["name"]

KnownToolNames == {ToolDescriptors[i].name : i \in 1..Len(ToolDescriptors)}

\* the POSTs issued for the call of task t
PostsOf(t) == {i \in 1..Len(posted) : posted[i].task = t}

\* the response is a result holding one text item, and no error
IsTextResult(response) ==
    /\ response.error = None
    /\ response.result # None
    /\ DOMAIN response.result = {"content"}
    /\ Len(response.result.content.items) = 1
    /\ response.result.content.items[1].type = Str("text")

TextOf(response) == response.result.content.items[1].text

IsError(response, code) ==
    /\ response.result = None
    /\ response.error # None
    /\ response.error.code = code

C3_NotConfigured ==
    \A t \in DOMAIN tasks :
        (~api_configured /\ Done(t) /\ IsToolsCall(t) /\ HasToolName(t)) =>
            /\ tasks[t].response.result = None
            /\ tasks[t].response.error # None
            /\ Contains(tasks[t].response.error.message, "not configured")

C3_Witness ==
    \E t \in DOMAIN tasks :
        /\ ~api_configured /\ Done(t) /\ IsToolsCall(t) /\ HasToolName(t)
        /\ ToolName(t) = Str("no_such_tool")
        /\ api_key = Str("")

\* C4 as stated: a tools/call naming an unregistered tool is answered with
\* error -32602 whose message contains the name, in every server state
C4_UnknownToolAnyState ==
    \A t \in DOMAIN tasks :
        (Done(t) /\ IsToolsCall(t) /\ HasToolName(t)
         /\ ToolName(t) \notin KnownToolNames) =>
            /\ IsError(tasks[t].response, -32602)
            /\ ContainsStr(tasks[t].response.error.message, Format(ToolName(t)))

\* C4 amended: with the credential configured, a tools/call naming an
\* unregistered tool is answered with error -32602 whose message contains
\* the name, whatever the arguments; with the credential not configured the
\* answer is error -32603 instead
C4_UnknownToolWhenConfigured ==
    \A t \in DOMAIN tasks :
        (Done(t) /\ IsToolsCall(t) /\ HasToolName(t)
         /\ ToolName(t) \notin KnownToolNames) =>
            IF api_configured
            THEN /\ IsError(tasks[t].response, -32602)
                 /\ ContainsStr(tasks[t].response.error.message,
                                Format(ToolName(t)))
            ELSE IsError(tasks[t].response, -32603)

C4_Witness ==
    \E t \in DOMAIN tasks :
        /\ api_configured /\ Done(t) /\ IsToolsCall(t) /\ HasToolName(t)
        /\ ToolName(t) = Str("no_such_tool")
        /\ "arguments" \in DOMAIN tasks[t].request.params
        /\ tasks[t].request.params["arguments"] = None

\* params is absent, empty, or a mapping without a name member
LacksToolName(t) ==
    \/ tasks[t].request.params = None
    \/ /\ IsDict(tasks[t].request.params)
       /\ "name" \notin DOMAIN tasks[t].request.params

\* C5: a tools/call whose params are absent, empty or without a name is
\* answered with error -32602 "missing tool name", configured or not, and
\* causes no upstream call
C5_MissingName ==
    \A t \in DOMAIN tasks :
        (IsToolsCall(t) /\ LacksToolName(t)) =>
            /\ PostsOf(t) = {}
            /\ \A i \in 1..Len(queue) : queue[i].task # t
            /\ Done(t) =>
                  /\ IsError(tasks[t].response, -32602)
                  /\ Contains(tasks[t].response.error.message, "missing tool name")

C5_Witness ==
    \E t \in DOMAIN tasks :
        /\ IsToolsCall(t) /\ Done(t) /\ ~api_configured
        /\ tasks[t].request.params = ("arguments" :> ("question" :> Chars(1)))

HandledMethods == {Str("initialize"), Str("tools/list"), Str("tools/call")}

\* C6: a request whose method is none of initialize, tools/list and
\* tools/call (or is absent) is answered with error -32601 carrying the
\* request's id, and causes no upstream call
C6_MethodNotFound ==
    \A t \in DOMAIN tasks :
        tasks[t].request.method \notin HandledMethods =>
            /\ PostsOf(t) = {}
            /\ \A i \in 1..Len(queue) : queue[i].task # t
            /\ Done(t) =>
                  /\ IsError(tasks[t].response, -32601)
                  /\ tasks[t].response.id = tasks[t].request.id

C6_Witness ==
    \E t \in DOMAIN tasks :
        /\ Done(t)
        /\ tasks[t].request.method = None
        /\ tasks[t].request.id = Str("a")

-----------------------------------------------------------------------------
(* Properties of responses, of concurrent calls and of the loop *)

ExactlyOne(a, b) == (a \/ b) /\ ~(a /\ b)

\* C7: every Response the dispatcher returns and every line the loop
\* writes has exactly one of result and error
C7_ResultXorError ==
    /\ \A t \in DOMAIN tasks :
          Done(t) => ExactlyOne(tasks[t].response.result # None,
                                tasks[t].response.error # None)
    /\ \A j \in 1..Len(stdout) :
          /\ ExactlyOne("result" \in DOMAIN stdout[j], "error" \in DOMAIN stdout[j])
          /\ "result" \in DOMAIN stdout[j] => stdout[j]["result"] # None
          /\ "error" \in DOMAIN stdout[j] => stdout[j]["error"] # None

C7_Witness ==
    /\ Len(stdout) = 2
    /\ "error" \in DOMAIN stdout[1]
    /\ "result" \in DOMAIN stdout[2]
    /\ posted # <<>>

\* C8: of requests handled concurrently each gets the response carrying
\* its own id, made of the outcome of its own upstream call
C8_NoCrossTalk ==
    \A t \in DOMAIN tasks :
        Done(t) =>
            /\ tasks[t].response.id = tasks[t].request.id
            /\ Cardinality(PostsOf(t)) <= 1
            /\ \A i \in PostsOf(t) :
                  /\ IsTextResult(tasks[t].response)
                  /\ posted[i].returned = Return(TextOf(tasks[t].response))
                  /\ ToolName(t) = Str("ask_gemini") =>
                        posted[i].prompt =
                            tasks[t].request.params["arguments"]["question"]

C8_Witness ==
    /\ Len(tasks) >= 3
    /\ Done(2) /\ Done(3)
    /\ tasks[1].st = "await"
    /\ posted[2].up = "ok" /\ posted[3].up = "timeout"

\* the upstream calls that have been issued and have not returned
Executing == {i \in 1..Len(posted) : posted[i].returned = Pending}

Queued(t) == \E i \in 1..Len(queue) : queue[i].task = t

Executed(t) == \E i \in PostsOf(t) : posted[i].returned # Pending

\* C9: at most 2 upstream calls execute at once, and every call that waits
\* in the executor's queue is eventually executed
C9_AtMostTwoExecuting ==
    /\ [](Cardinality(Executing) <= 2)
    /\ \A t \in 1..MaxTasks : [](Queued(t) => <>Executed(t))

C9_Witness ==
    /\ Cardinality(Executing) = 2
    /\ Queued(3)

\* the upstream call of a request is outstanding
Outstanding ==
    \E t \in DOMAIN tasks : tasks[t].st = "await" /\ tasks[t].fut = Pending

\* C10 as stated: while an upstream call is outstanding, the loop is able
\* to take the next complete line of its buffer
C10_LoopNotStalled ==
    (Outstanding /\ HasNewline(buffer)) => ENABLED ProcessLine

\* C10 amended: while an upstream call is outstanding the loop is suspended
\* on that request: it takes no line from its buffer, starts no handler and
\* writes no response until the call has returned
C10_LoopAwaitsCall ==
    /\ [](\A t \in DOMAIN tasks :
            tasks[t].st = "await" => pc = "await" /\ t = Len(tasks))
    /\ [][Outstanding =>
            /\ buffer' = buffer
            /\ stdout' = stdout
            /\ Len(tasks') = Len(tasks)]_vars

C10_Witness ==
    /\ Outstanding
    /\ Len(buffer) = 3
    /\ buffer[1] = Open(InitializeObject(Str("a")), FALSE)
    /\ buffer[3] = Newline

-----------------------------------------------------------------------------
(* Properties of the loop: bad lines, signals, end of input *)

\* the line is not empty and is no JSON text (as bytes or as characters)
IsMalformedLine(line) ==
    /\ line # <<>>
    /\ LineValue(line).k = "raise"

\* the line spells a JSON object: handle_request is called for it
IsRequestLine(line) ==
    /\ LineValue(line).k = "return"
    /\ IsDict(LineValue(line).v)

\* the line spells a request that handle_request answers with an error
YieldsError(line) ==
    /\ IsRequestLine(line)
    /\ handle_request(RequestOf(LineValue(line).v)).k = "return"
    /\ handle_request(RequestOf(LineValue(line).v)).v.error # None

RequestLines == {i \in 1..Len(sent) : IsRequestLine(sent[i])}

\* a request line comes right after a malformed line or after a request
\* that yields an error response
BadLineThenRequest ==
    \E i \in 1..(Len(sent) - 1) :
        /\ IsMalformedLine(sent[i]) \/ YieldsError(sent[i])
        /\ IsRequestLine(sent[i + 1])

\* the loop has left its while loop on a zero-byte read, with no signal
StoppedOnEOF == pc = "stopped" /\ running

\* C11: lines that are no JSON text produce no output line (there are never
\* more output lines than request lines), a bad line does not end the loop,
\* and a request line that follows a malformed line or an error-yielding
\* request is answered: when the loop has stopped on end of input, every
\* request line of such an input has its response line
C11_BadLineDoesNotStop ==
    /\ Len(stdout) <= Cardinality(RequestLines)
    /\ (pc \in {"finally", "stopped"} /\ running) => (eof /\ pipe = <<>>)
    /\ (StoppedOnEOF /\ BadLineThenRequest) =>
          Len(stdout) = Cardinality(RequestLines)

\* every request handled so far is done and its response line is written,
\* and every upstream call issued has returned
AllWritten ==
    /\ Len(stdout) = Len(tasks)
    /\ \A t \in DOMAIN tasks :
          Done(t) /\ stdout[t] = BuildLine(tasks[t].response)
    /\ \A i \in 1..Len(posted) : posted[i].returned # Pending

\* C12: a signal that arrives while the upstream call of a tools/call is in
\* flight does not cancel it: the loop does not go to shutdown while a call
\* is queued or executing, the call returns and the loop then stops, and
\* when the process has stopped every request handled has its response line
\* on the output, made of what its upstream call returned
C12_SignalDoesNotCancel ==
    /\ []((Outstanding \/ Executing # {} \/ queue # <<>>) =>
             pc \notin {"finally", "stopped"})
    /\ [](pc = "stopped" => AllWritten)
    /\ [](\A t \in DOMAIN tasks : \A i \in PostsOf(t) :
             (Done(t) /\ IsToolsCall(t)) =>
                 posted[i].returned = Return(TextOf(tasks[t].response)))
    /\ ((~running /\ Outstanding) ~> (pc = "stopped"))

C12_Witness ==
    /\ ~running
    /\ Outstanding
    /\ \E w \in Workers : workers[w] # Idle
    /\ pc = "await"

\* C13: once a signal has cleared the running flag, the loop starts no
\* further read and starts handling no further request line (the line in
\* flight at that moment is already being handled), and it eventually
\* reaches the stopped state even if no more input arrives
C13_SignalStopsLoop ==
    /\ [][~running => (pc' = "read" => pc = "read")]_vars
    /\ [][~running => Len(tasks') = Len(tasks)]_vars
    /\ (~running ~> (pc = "stopped"))

\* C14: once the host has closed the input the loop reads zero bytes and
\* the server eventually reaches the stopped state; when it has stopped on
\* end of input, every complete request line of the input has been handled
\* and has its response line
C14_EOFTerminates ==
    /\ (eof ~> (pc = "stopped"))
    /\ [](StoppedOnEOF =>
             /\ Len(tasks) = Cardinality(RequestLines)
             /\ AllWritten)

-----------------------------------------------------------------------------
(* Properties of the four tools *)

\* tools/call naming one of the four tools
IsKnownCall(t) ==
    /\ IsToolsCall(t) /\ HasToolName(t)
    /\ ToolName(t) \in KnownToolNames

\* params.get("arguments", {}) of a tools/call with a name
Arguments(t) ==
    IF "arguments" \in DOMAIN tasks[t].request.params
    THEN tasks[t].request.params["arguments"]
    ELSE EmptyDict

ToolIndex(name) ==
    CHOOSE i \in 1..Len(ToolDescriptors) : ToolDescriptors[i].name = name

\* question / code / topic / content
RequiredArgument(t) == ToolDescriptors[ToolIndex(ToolName(t))].required[1]

\* arguments is a mapping in which the required argument is absent or ""
LacksRequiredArgument(t) ==
    /\ IsKnownCall(t)
    /\ IsDict(Arguments(t))
    /\ \/ RequiredArgument(t) \notin DOMAIN Arguments(t)
       \/ Arguments(t)[RequiredArgument(t)] = Str("")

GuidanceStrings ==
    << Str("Please provide a question."),
       Str("Please provide code to review."),
       Str("Please provide a topic to brainstorm."),
       Str("Please provide content to analyze.") >>

Guidance(t) == GuidanceStrings[ToolIndex(ToolName(t))]

NoUpstreamCall(t) ==
    /\ PostsOf(t) = {}
    /\ \A i \in 1..Len(queue) : queue[i].task # t

\* C15 as stated: a tools/call of one of the four tools whose required
\* argument is absent or empty returns a result whose text is the tool's
\* guidance string, in every server state, and makes no upstream call
C15_GuidanceAnyState ==
    \A t \in DOMAIN tasks :
        LacksRequiredArgument(t) =>
            /\ NoUpstreamCall(t)
            /\ Done(t) =>
                  /\ IsTextResult(tasks[t].response)
                  /\ TextOf(tasks[t].response) = Guidance(t)

\* C15 amended: with the credential configured, a tools/call of one of the
\* four tools whose required argument is absent or empty returns a result
\* whose text is exactly the tool's guidance string; with the credential
\* not configured it is answered with error -32603 "not configured"; in
\* both cases no upstream call is made
C15_GuidanceWhenConfigured ==
    \A t \in DOMAIN tasks :
        LacksRequiredArgument(t) =>
            /\ NoUpstreamCall(t)
            /\ Done(t) =>
                  IF api_configured
                  THEN /\ IsTextResult(tasks[t].response)
                       /\ TextOf(tasks[t].response) = Guidance(t)
                  ELSE /\ IsError(tasks[t].response, -32603)
                       /\ Contains(tasks[t].response.error.message,
                                   "not configured")

C15_Witness ==
    \E t \in DOMAIN tasks :
        /\ api_configured /\ Done(t) /\ IsKnownCall(t)
        /\ ToolName(t) = Str("gemini_brainstorm")
        /\ Arguments(t) = ("constraints" :> Chars(1))
        /\ TextOf(tasks[t].response) = Str("Please provide a topic to brainstorm.")

IsAnalyzeLarge(t) ==
    IsKnownCall(t) /\ ToolName(t) = Str("gemini_analyze_large")

\* the content argument of a gemini_analyze_large call that went upstream,
\* and its length
ContentOf(t) == Arguments(t)["content"]

ContentLength(t) == ContentOf(t).parts[1].chars

\* what the prompt holds after its "Content:" heading
EmbeddedContent(prompt) ==
    LET i == CHOOSE i \in 1..Len(prompt.parts) :
                 prompt.parts[i] = [lit |-> "Content:"]
    IN  [t |-> "str", parts |-> SubSeq(prompt.parts, i + 1, Len(prompt.parts))]

RECURSIVE CallerChars(_)
\* how many characters supplied by the caller a sequence of parts holds
CallerChars(parts) ==
    IF parts = <<>> THEN 0
    ELSE (IF "chars" \in DOMAIN Head(parts) THEN Head(parts).chars ELSE 0)
         + CallerChars(Tail(parts))

\* C16: the prompt of every upstream call of gemini_analyze_large embeds,
\* for content longer than 30,000 characters, exactly its first 30,000
\* characters followed by the marker "[Content truncated due to size...]",
\* and for content of at most 30,000 characters the content unmodified;
\* never more than 30,000 characters of the content
C16_Truncation ==
    \A t \in DOMAIN tasks :
        IsAnalyzeLarge(t) =>
            \A i \in PostsOf(t) :
                LET e == EmbeddedContent(posted[i].prompt) IN
                /\ ContentLength(t) > 30000 =>
                      e = Cat(Chars(30000),
                              Str("[Content truncated due to size...]"))
                /\ ContentLength(t) <= 30000 => e = ContentOf(t)
                /\ CallerChars(e.parts) <= 30000

C16_Witness ==
    \E t \in DOMAIN tasks :
        /\ IsAnalyzeLarge(t) /\ Done(t)
        /\ PostsOf(t) # {}
        /\ ContentLength(t) = 30001
        /\ \A i \in PostsOf(t) :
              Contains(posted[i].prompt, "[Content truncated due to size...]")

\* C17: an upstream call of gemini_analyze_large names the large model
\* exactly when the supplied content is longer than 10,000 characters, cut
\* or not; an upstream call of any other tool names the small model
C17_ModelSelection ==
    \A t \in DOMAIN tasks :
        \A i \in PostsOf(t) :
            IF IsAnalyzeLarge(t)
            THEN /\ posted[i].model \in {"gemini-1.5-pro", "gemini-1.5-flash"}
                 /\ posted[i].model = "gemini-1.5-pro" <=> ContentLength(t) > 10000
            ELSE posted[i].model = "gemini-1.5-flash"

C17_Witness ==
    \E t \in DOMAIN tasks :
        /\ IsAnalyzeLarge(t) /\ Done(t)
        /\ PostsOf(t) # {}
        /\ ContentLength(t) = 10000
        /\ \A i \in PostsOf(t) : posted[i].model = "gemini-1.5-flash"

-----------------------------------------------------------------------------
(* Properties of tools/list, of failures and of initialize *)

FourToolNames ==
    {Str("ask_gemini"), Str("gemini_code_review"), Str("gemini_brainstorm"),
     Str("gemini_analyze_large")}

\* a result listing four descriptors whose names are the four tool names
IsFourToolsResult(response) ==
    /\ response.error = None
    /\ response.result # None
    /\ DOMAIN response.result = {"tools"}
    /\ LET tools == response.result.tools.items IN
         /\ Len(tools) = 4
         /\ {tools[i].name : i \in 1..Len(tools)} = FourToolNames
         /\ \A i, j \in 1..Len(tools) : tools[i].name = tools[j].name => i = j

\* C18: every tools/list request is answered with a result that lists
\* exactly the four descriptors, names unique, whether or not the credential
\* is configured and whatever requests were handled before it; it causes no
\* upstream call
C18_ToolsListFixed ==
    /\ Cardinality(FourToolNames) = 4
    /\ \A t \in DOMAIN tasks :
          tasks[t].request.method = Str("tools/list") =>
              /\ Done(t)
              /\ NoUpstreamCall(t)
              /\ tasks[t].response.id = tasks[t].request.id
              /\ IsFourToolsResult(tasks[t].response)
              /\ \A u \in DOMAIN tasks :
                    tasks[u].request.method = Str("tools/list") =>
                        tasks[u].response.result = tasks[t].response.result

C18_Witness ==
    /\ Len(tasks) = 2
    /\ IsToolsCall(1) /\ Done(1) /\ PostsOf(1) # {}
    /\ tasks[2].request.method = Str("tools/list")
    /\ Done(2)
    /\ Len(stdout) = 2
    /\ "result" \in DOMAIN stdout[2]

\* the messages of the failures Python raises on params and arguments that
\* are not mappings
FailureMessages ==
    {Str("argument of type is not iterable"), Str("indices must be integers"),
     Str("object has no attribute 'get'")}

\* params is neither absent nor a mapping
NonMappingParams(t) ==
    /\ IsToolsCall(t)
    /\ ~IsDict(tasks[t].request.params)
    /\ tasks[t].request.params # None

\* a tool is called with arguments that are not a mapping
NonMappingArguments(t) ==
    /\ IsKnownCall(t)
    /\ api_configured
    /\ ~IsDict(Arguments(t))

\* C19: whatever the method and the shape of params and arguments, the
\* Response handle_request returns carries the request's id and exactly one
\* of result and error; params that are not a mapping give error -32602 or
\* (when looking for the name fails) error -32603 whose message is the
\* failure's message; arguments that are not a mapping give error -32603
\* whose message contains the failure's message
C19_NoFailureEscapes ==
    \A t \in DOMAIN tasks :
        /\ tasks[t].st \in {"new", "await", "done"}
        /\ Done(t) =>
              /\ tasks[t].response.id = tasks[t].request.id
              /\ ExactlyOne(tasks[t].response.result # None,
                            tasks[t].response.error # None)
              /\ NonMappingParams(t) =>
                    \/ IsError(tasks[t].response, -32602)
                    \/ /\ IsError(tasks[t].response, -32603)
                       /\ tasks[t].response.error.message \in FailureMessages
              /\ (NonMappingParams(t) /\ tasks[t].request.params.t = "int"
                  /\ tasks[t].request.params.v # 0) =>
                    IsError(tasks[t].response, -32603)
              /\ NonMappingArguments(t) =>
                    /\ IsError(tasks[t].response, -32603)
                    /\ \E m \in FailureMessages :
                          ContainsStr(tasks[t].response.error.message, m)

C19_Witness ==
    \E t \in DOMAIN tasks :
        /\ Done(t) /\ IsToolsCall(t)
        /\ tasks[t].request.params = PyInt(5)
        /\ tasks[t].request.id = Str("a")
        /\ IsError(tasks[t].response, -32603)
        /\ tasks[t].response.id = Str("a")

InitializeDocument ==
    [protocolVersion |-> Str("2024-11-05"),
     capabilities |-> [tools |-> EmptyDict],
     serverInfo |-> [name |-> Str("gemini-collab"), version |-> Str("1.0.0")]]

\* an initialize request was handled before request t
InitializedBefore(t) ==
    \E u \in 1..(t - 1) : tasks[u].request.method = Str("initialize")

\* C20: every initialize request, the first or a later one, before or after
\* other requests, is answered with the same document; tools/list and
\* tools/call are answered as they are on their own, whether or not an
\* initialize request was handled before them
C20_NoHandshakeOrder ==
    \A t \in DOMAIN tasks :
        Done(t) =>
            /\ tasks[t].request.method = Str("initialize") =>
                  tasks[t].response =
                      Response(tasks[t].request.id, InitializeDocument, None)
            /\ tasks[t].request.method = Str("tools/list") =>
                  IsFourToolsResult(tasks[t].response)
            /\ (IsKnownCall(t) /\ ~api_configured) =>
                  IsError(tasks[t].response, -32603)
            /\ (IsKnownCall(t) /\ api_configured /\ PostsOf(t) # {}) =>
                  /\ IsTextResult(tasks[t].response)
                  /\ \A i \in PostsOf(t) :
                        posted[i].returned = Return(TextOf(tasks[t].response))

C20_Witness ==
    /\ Len(tasks) = 2
    /\ IsKnownCall(1) /\ Done(1) /\ PostsOf(1) # {}
    /\ ~InitializedBefore(1)
    /\ tasks[2].request.method = Str("initialize")
    /\ Done(2)
    /\ tasks[2].response.result = InitializeDocument

-----------------------------------------------------------------------------
(* Properties of upstream calls *)

\* the outcomes in which requests.post, raise_for_status or the reading of
\* the reply raises an exception
UpstreamRaises == {"timeout", "http_error", "connection_error", "bad_body"}

QueuedFor(t) == {i \in 1..Len(queue) : queue[i].task = t}

-----------------------------------------------------------------------------
(* Properties of the order and the ids of responses *)

\* the requests handled are, in order, requests spelled by lines of the
\* input: f maps each handled request to its line
InArrivalOrder ==
    \E f \in [DOMAIN tasks -> 1..Len(sent)] :
        /\ \A t, u \in DOMAIN tasks : t < u => f[t] < f[u]
        /\ \A t \in DOMAIN tasks :
              /\ IsRequestLine(sent[f[t]])
              /\ tasks[t].request = RequestOf(LineValue(sent[f[t]]).v)

\* C23: the loop starts handling a line only when the responses to all
\* lines handled before are written; at most one request is in handling,
\* the last one started; the handled requests are lines of the input in
\* arrival order and the response lines are their responses in that order
C23_StrictlySequential ==
    /\ [][Len(tasks') > Len(tasks) =>
            /\ Len(stdout) = Len(tasks)
            /\ \A t \in DOMAIN tasks : Done(t)]_vars
    /\ [](\A t \in DOMAIN tasks : ~Done(t) => t = Len(tasks))
    /\ [](InArrivalOrder)
    /\ [](/\ Len(stdout) = Cardinality({t \in DOMAIN tasks : Done(t)})
          /\ \A t \in DOMAIN tasks :
                Done(t) => stdout[t] = BuildLine(tasks[t].response))

C23_Witness ==
    /\ Len(tasks) = 2
    /\ Done(1)
    /\ tasks[2].st = "await"
    /\ Len(stdout) = 1
    /\ stdout[1] = BuildLine(tasks[1].response)
    /\ tasks[1].request # tasks[2].request

\* the position in the input of the t-th line that spells a request object
NthRequestLine(t) ==
    CHOOSE i \in RequestLines :
        Cardinality({j \in RequestLines : j <= i}) = t

\* the JSON object that the t-th request line spells
NthRequestObject(t) == LineValue(sent[NthRequestLine(t)]).v

\* the requests handled so far are the first request lines of the input
HandledAreFirstLines ==
    /\ Len(tasks) <= Cardinality(RequestLines)
    /\ \A t \in DOMAIN tasks :
          tasks[t].request = RequestOf(NthRequestObject(t))

\* C24: the response line to a decoded request has an id member exactly
\* when the request object had an id member, and then with the same value;
\* a request without an id member gets one response line without id
C24_IdEchoedVerbatim ==
    HandledAreFirstLines =>
        \A t \in DOMAIN tasks :
            Done(t) =>
                /\ Len(stdout) >= t
                /\ "id" \in DOMAIN stdout[t] <=> "id" \in DOMAIN NthRequestObject(t)
                /\ "id" \in DOMAIN stdout[t] =>
                      stdout[t]["id"] = NthRequestObject(t)["id"]

-----------------------------------------------------------------------------
(* Statelessness *)

\* the outcome of the upstream call of request t, if it made one
OutcomeOf(t) ==
    IF PostsOf(t) = {} THEN "none"
    ELSE posted[CHOOSE i \in PostsOf(t) : TRUE].up

\* the response to a request computed from the request, the credential
\* configuration and the upstream outcome alone
AnswerTo(request, up) ==
    LET r == handle_request(request) IN
    IF r.k = "return" THEN r.v
    ELSE handle_request_resume(request, _call_gemini_api(r.prompt, r.model, up))

\* C25: a step that handles a request changes neither the credential nor
\* the configured flag nor the running flag; the response to every request
\* is the one computed from the request, the credential configuration and
\* its upstream outcome alone; two requests of one run that are equal and
\* have the same upstream outcome get the same response, whatever was
\* handled before each
C25_Stateless ==
    /\ [][api_key' = api_key /\ api_configured' = api_configured]_vars
    /\ [][(tasks' # tasks \/ stdout' # stdout \/ posted' # posted) =>
            running' = running]_vars
    /\ [](\A t \in DOMAIN tasks :
            Done(t) => tasks[t].response = AnswerTo(tasks[t].request, OutcomeOf(t)))
    /\ [](\A t, u \in DOMAIN tasks :
            (/\ Done(t) /\ Done(u)
             /\ tasks[t].request = tasks[u].request
             /\ OutcomeOf(t) = OutcomeOf(u)) =>
                /\ tasks[t].response = tasks[u].response
                /\ stdout[t] = stdout[u])

C25_Witness ==
    /\ Len(tasks) = 2
    /\ Done(1) /\ Done(2)
    /\ IsKnownCall(1)
    /\ tasks[1].request = tasks[2].request
    /\ OutcomeOf(1) = "http_error"
    /\ OutcomeOf(2) = "http_error"
    /\ Len(stdout) = 2
    /\ stdout[1] = stdout[2]

-----------------------------------------------------------------------------
(* Framing and reads *)

\* every line of the input is UTF-8 text
InputIsUtf8 ==
    \A i \in 1..Len(sent) : Utf8Decode(sent[i]).k = "return"

\* C26: whatever the split of a UTF-8 input into reads, the loop extracts
\* the same lines and writes the same responses as when the input arrives
\* whole: the requests it handles are complete lines of the input in
\* order, and when it has stopped on end of input it has handled every
\* request line of the input, in order, and written their responses
C26_SplitIndependent ==
    /\ InArrivalOrder
    /\ (StoppedOnEOF /\ InputIsUtf8) =>
          /\ Len(tasks) = Cardinality(RequestLines)
          /\ HandledAreFirstLines
          /\ \A t \in DOMAIN tasks :
                Done(t) /\ stdout[t] = BuildLine(tasks[t].response)

-----------------------------------------------------------------------------
(* When an upstream call is made *)

\* a tools/call of one of the four tools, with the credential configured,
\* whose arguments hold a non-empty required argument
MayCallUpstream(t) ==
    /\ api_configured
    /\ IsKnownCall(t)
    /\ IsDict(Arguments(t))
    /\ RequiredArgument(t) \in DOMAIN Arguments(t)
    /\ Arguments(t)[RequiredArgument(t)] # Str("")

\* C27: an upstream call is submitted only for a tools/call with the
\* credential configured, a registered tool name and a non-empty required
\* argument, and then exactly once; every other request (other method,
\* missing or unknown name, credential not configured, empty or absent
\* required argument) is answered at once, without any upstream call
C27_UpstreamOnlyWhenWarranted ==
    \A t \in DOMAIN tasks :
        /\ ~NoUpstreamCall(t) => MayCallUpstream(t)
        /\ (~MayCallUpstream(t) /\ tasks[t].st # "new") =>
              /\ Done(t)
              /\ NoUpstreamCall(t)
              /\ ExactlyOne(tasks[t].response.result # None,
                            tasks[t].response.error # None)
        /\ (MayCallUpstream(t) /\ Done(t)) => Cardinality(PostsOf(t)) = 1

C27_Witness ==
    \E t \in DOMAIN tasks :
        /\ Done(t) /\ MayCallUpstream(t)
        /\ ToolName(t) = Str("gemini_code_review")
        /\ DOMAIN Arguments(t) = {"code", "focus_areas"}
        /\ Arguments(t)["focus_areas"] = Str("")
        /\ Cardinality(PostsOf(t)) = 1

====
